---- MODULE Spec2Model ----
(***************************************************************************)
(* Model of app.py: the recipe adjuster.  The workbook xls is loaded once  *)
(* and never mutated; every operation is a function of its arguments and   *)
(* of xls.  A behaviour is one call: Init draws the workbook and the       *)
(* arguments, the action of the called function computes what it returns   *)
(* (or the exception it lets escape).                                      *)
(*                                                                         *)
(* Python values are records [kind, n, d, s]: an int n, a float n/d (an    *)
(* exact rational standing for the double), nan, a str s, or Ellipsis.     *)
(* Strings are TLA+ strings, read character by character with SubSeq.      *)
(***************************************************************************)
EXTENDS Integers, Sequences, FiniteSets, TLC

VARIABLES xls, call, ret

vars == <<xls, call, ret>>

----------------------------------------------------------------------------
(* Bounds of the model *)

\* longest quantity token enumerated exhaustively
MaxQtyLen == 2
\* largest serving count requested
MaxServings == 4
\* most sheets in a workbook
MaxSheets == 2
\* largest whole minute count formatted
MaxMinutes == 130

----------------------------------------------------------------------------
(* Python values *)

PyInt(k) == [kind |-> "int", n |-> k, d |-> 1, s |-> ""]
PyStr(t) == [kind |-> "str", n |-> 0, d |-> 1, s |-> t]
PyNaN == [kind |-> "nan", n |-> 0, d |-> 1, s |-> ""]
PyEllipsis == [kind |-> "ellipsis", n |-> 0, d |-> 1, s |-> ""]

Abs(k) == IF k < 0 THEN -k ELSE k

RECURSIVE GCD(_, _)
GCD(a, b) == IF b = 0 THEN a ELSE GCD(b, a % b)

PyFloat(num, den) ==
    LET g == GCD(Abs(num), Abs(den))
        sg == IF den < 0 THEN -1 ELSE 1
    IN [kind |-> "float", n |-> sg * (num \div g), d |-> sg * (den \div g), s |-> ""]

IsNumber(v) == v.kind \in {"int", "float"}

NumEq(a, b) == IsNumber(a) /\ IsNumber(b) /\ a.n * b.d = b.n * a.d

----------------------------------------------------------------------------
(* Characters and strings *)

Char(s, i) == SubSeq(s, i, i)

\* s[i-1:j] of Python: the slice is cut at the end of the string
Slice(s, i, j) == SubSeq(s, i, IF j > Len(s) THEN Len(s) ELSE j)

DigitChars == "0123456789"
UpperChars == "ABCDEFGHIJKLMNOPQRSTUVWXYZ"
LowerChars == "abcdefghijklmnopqrstuvwxyz"

InChars(c, chars) == \E i \in 1..Len(chars) : Char(chars, i) = c
IndexIn(c, chars) == CHOOSE i \in 1..Len(chars) : Char(chars, i) = c

IsDigit(c) == InChars(c, DigitChars)
IsLetter(c) == InChars(c, UpperChars) \/ InChars(c, LowerChars)
IsSpace(c) == c \in {" ", "\n", "\t"}
DigitVal(c) == IndexIn(c, DigitChars) - 1

LowerChar(c) == IF InChars(c, UpperChars) THEN Char(LowerChars, IndexIn(c, UpperChars)) ELSE c

RECURSIVE lower(_)
lower(s) == IF s = "" THEN "" ELSE LowerChar(Char(s, 1)) \o lower(SubSeq(s, 2, Len(s)))

RECURSIVE lstrip(_)
lstrip(s) == IF s # "" /\ IsSpace(Char(s, 1)) THEN lstrip(SubSeq(s, 2, Len(s))) ELSE s

RECURSIVE rstrip(_)
rstrip(s) == IF s # "" /\ IsSpace(Char(s, Len(s))) THEN rstrip(SubSeq(s, 1, Len(s) - 1)) ELSE s

strip(s) == rstrip(lstrip(s))

Contains(s, k) == \E i \in 0..(Len(s) - Len(k)) : SubSeq(s, i + 1, i + Len(k)) = k

RECURSIVE NatToStr(_)
NatToStr(k) == IF k < 10 THEN Char(DigitChars, k + 1)
               ELSE NatToStr(k \div 10) \o Char(DigitChars, (k % 10) + 1)

IntToStr(k) == IF k < 0 THEN "-" \o NatToStr(-k) ELSE NatToStr(k)

----------------------------------------------------------------------------
(* Numbers: round(), round(x, 2), str() and float() of Python *)

\* round(n/d) to an integer, ties to even (d > 0)
RoundHalfEven(num, den) ==
    LET q == num \div den
        r == num % den
    IN IF 2 * r < den THEN q
       ELSE IF 2 * r > den THEN q + 1
       ELSE IF q % 2 = 0 THEN q ELSE q + 1

RECURSIVE IsDyadic(_)
IsDyadic(den) == den = 1 \/ (den % 2 = 0 /\ IsDyadic(den \div 2))

\* round(n/d, 2) in hundredths, by long division (d > 0, n/d in lowest terms).
\* Python rounds the double, not the rational: a decimal tie x.xx5 is an exact
\* double only when d is a power of two, and then goes to the even hundredth;
\* otherwise the double lies just above or just below the tie, and fpUp says
\* which
RoundHundredths(num, den, fpUp) ==
    LET whole == num \div den
        r0 == num % den
        t1 == (r0 * 10) \div den
        r1 == (r0 * 10) % den
        t2 == (r1 * 10) \div den
        r2 == (r1 * 10) % den
        h == whole * 100 + t1 * 10 + t2
    IN IF 2 * r2 < den THEN h
       ELSE IF 2 * r2 > den THEN h + 1
       ELSE IF IsDyadic(den) THEN (IF h % 2 = 0 THEN h ELSE h + 1)
       ELSE IF fpUp THEN h + 1 ELSE h

\* round(v, 2): an int stays an int, a float becomes the nearest hundredth
round2(v, fpUp) ==
    IF v.kind = "int" THEN v ELSE PyFloat(RoundHundredths(v.n, v.d, fpUp), 100)

\* repr of a float that is a whole number of hundredths
FloatRepr(v) ==
    LET h == (Abs(v.n) * 100) \div v.d
        whole == h \div 100
        frac == h % 100
        fracStr == IF frac % 10 = 0 THEN NatToStr(frac \div 10)
                   ELSE NatToStr(frac \div 10) \o NatToStr(frac % 10)
    IN (IF v.n < 0 THEN "-" ELSE "") \o NatToStr(whole) \o "." \o fracStr

\* str(v)
PyStrOf(v) ==
    CASE v.kind = "str" -> v.s
      [] v.kind = "int" -> IntToStr(v.n)
      [] v.kind = "float" -> FloatRepr(v)
      [] v.kind = "nan" -> "nan"
      [] OTHER -> "Ellipsis"

RECURSIVE ScanDigits(_, _)
ScanDigits(s, i) == IF i <= Len(s) /\ IsDigit(Char(s, i)) THEN ScanDigits(s, i + 1) ELSE i

RECURSIVE DigitsToNat(_)
DigitsToNat(s) == IF s = "" THEN 0
                  ELSE DigitsToNat(SubSeq(s, 1, Len(s) - 1)) * 10 + DigitVal(Char(s, Len(s)))

RECURSIVE Pow10(_)
Pow10(k) == IF k = 0 THEN 1 ELSE 10 * Pow10(k - 1)

\* value of the literal digits[.digits] whose integer part ends before j and
\* whose fraction, when hasDot, is s[j+1 .. k-1]
DecimalValue(s, i, j, k, hasDot) ==
    IF ~hasDot THEN PyInt(DigitsToNat(SubSeq(s, i, j - 1)))
    ELSE PyFloat(DigitsToNat(SubSeq(s, i, j - 1)) * Pow10(k - j - 1)
                   + DigitsToNat(SubSeq(s, j + 1, k - 1)),
                 Pow10(k - j - 1))

\* float(str): surrounding whitespace, an optional sign, then nan or a decimal
\* literal; ok = FALSE stands for ValueError
ParseFloat(str) ==
    LET t == strip(str)
        signed == t # "" /\ Char(t, 1) \in {"+", "-"}
        b == IF signed THEN SubSeq(t, 2, Len(t)) ELSE t
        neg == signed /\ Char(t, 1) = "-"
        j == ScanDigits(b, 1)
        hasDot == j <= Len(b) /\ Char(b, j) = "."
        k == IF hasDot THEN ScanDigits(b, j + 1) ELSE j
        v == DecimalValue(b, 1, j, k, hasDot)
    IN IF lower(b) = "nan" THEN [ok |-> TRUE, v |-> PyNaN]
       ELSE IF b = "" \/ k <= Len(b) \/ (hasDot /\ k = 2) THEN [ok |-> FALSE, v |-> PyNaN]
       ELSE [ok |-> TRUE, v |-> PyFloat(IF neg THEN -v.n ELSE v.n, v.d)]

\* float(v)
ToFloat(v) ==
    CASE v.kind = "str" -> ParseFloat(v.s)
      [] v.kind \in {"int", "float"} -> [ok |-> TRUE, v |-> PyFloat(v.n, v.d)]
      [] v.kind = "nan" -> [ok |-> TRUE, v |-> PyNaN]
      [] OTHER -> [ok |-> FALSE, v |-> PyNaN]

----------------------------------------------------------------------------
(* Quantity formatter *)

BASE_SERVINGS == 2

\* Fraction.limit_denominator: the continued-fraction loop, then the choice
\* between the last convergent p1/q1 and the semiconvergent, whichever is
\* closer.  An exact tie of the rational goes to p1/q1 when the double is that
\* rational (selfDen a power of two); otherwise the double is off the tie and
\* the candidate on its side (fpUp: the greater) is the closer one
RECURSIVE LimitLoop(_, _, _, _, _, _, _, _, _)
LimitLoop(num, den, p0, q0, p1, q1, maxDen, selfDen, fpUp) ==
    LET a == num \div den
        q2 == q0 + a * q1
        k == (maxDen - q0) \div q1
        pb == p0 + k * p1
        qb == q0 + k * q1
        convergentGreater == p1 * qb > pb * q1
    IN IF q2 > maxDen
       THEN IF 2 * den * qb < selfDen THEN <<p1, q1>>
            ELSE IF 2 * den * qb > selfDen THEN <<pb, qb>>
            ELSE IF IsDyadic(selfDen) \/ (fpUp <=> convergentGreater) THEN <<p1, q1>>
            ELSE <<pb, qb>>
       ELSE LimitLoop(den, num - a * den, p1, q1, p0 + a * p1, q2, maxDen, selfDen, fpUp)

limit_denominator(v, maxDen, fpUp) ==
    IF v.d <= maxDen THEN <<v.n, v.d>>
    ELSE LimitLoop(v.n, v.d, 0, 1, 1, 0, maxDen, v.d, fpUp)

to_mixed_fraction(val, fpUp) ==
    LET frac == limit_denominator(val, 8, fpUp)
        whole == frac[1] \div frac[2]
        remainder == frac[1] % frac[2]
        g == GCD(remainder, frac[2])
        remStr == IntToStr(remainder \div g) \o "/" \o IntToStr(frac[2] \div g)
    IN IF remainder = 0 THEN IntToStr(whole)
       ELSE IF whole = 0 THEN remStr
       ELSE IntToStr(whole) \o " and " \o remStr

format_time(minutes) ==
    LET f == ToFloat(minutes)
        m == RoundHalfEven(f.v.n, f.v.d)
        hrs == m \div 60
        mins == m % 60
    IN IF ~f.ok \/ f.v.kind = "nan" THEN PyStrOf(minutes)
       ELSE (IF hrs # 0 THEN IntToStr(hrs) \o " hr" \o (IF hrs > 1 THEN "s" ELSE "") \o " "
             ELSE "")
            \o (IF mins # 0 THEN IntToStr(mins) \o " min" \o (IF mins > 1 THEN "s" ELSE "")
                ELSE "")

scale_cooking_time(t, servings) ==
    LET f == ToFloat(t)
    IN IF ~f.ok \/ f.v.kind = "nan" THEN PyStr("N/A")
       ELSE PyInt(RoundHalfEven(f.v.n * servings, f.v.d * BASE_SERVINGS))

----------------------------------------------------------------------------
(* eval() of a quantity token: a string over digits, '.' and '/' *)

EvalError == [kind |-> "error", n |-> 0, d |-> 1, s |-> ""]

\* the Python token starting at s[i]: a number literal, the Ellipsis literal,
\* '/' or '//'; "err" is a token no expression over this alphabet can hold
Tok(s, i) ==
    LET c == Char(s, i)
        j == ScanDigits(s, i)
        hasDot == j <= Len(s) /\ Char(s, j) = "."
        k == IF hasDot THEN ScanDigits(s, j + 1) ELSE j
        badInt == ~hasDot /\ c = "0" /\ j - i > 1 /\ DigitsToNat(SubSeq(s, i, j - 1)) # 0
    IN IF IsDigit(c)
       THEN IF badInt THEN [type |-> "err", v |-> EvalError, next |-> k]
            ELSE [type |-> "num", v |-> DecimalValue(s, i, j, k, hasDot), next |-> k]
       ELSE IF c = "."
       THEN IF i + 1 <= Len(s) /\ IsDigit(Char(s, i + 1))
            THEN [type |-> "num", v |-> DecimalValue(s, i, i, ScanDigits(s, i + 1), TRUE),
                  next |-> ScanDigits(s, i + 1)]
            ELSE IF Slice(s, i, i + 2) = "..."
            THEN [type |-> "ell", v |-> PyEllipsis, next |-> i + 3]
            ELSE [type |-> "err", v |-> EvalError, next |-> i + 1]
       ELSE IF Slice(s, i, i + 1) = "//"
       THEN [type |-> "floordiv", v |-> EvalError, next |-> i + 2]
       ELSE [type |-> "div", v |-> EvalError, next |-> i + 1]

\* a / b and a // b; EvalError stands for TypeError and ZeroDivisionError
ApplyDiv(op, a, b) ==
    IF ~IsNumber(a) \/ ~IsNumber(b) \/ b.n = 0 THEN EvalError
    ELSE IF op = "div" THEN PyFloat(a.n * b.d, a.d * b.n)
    ELSE IF a.kind = "int" /\ b.kind = "int" THEN PyInt(a.n \div b.n)
    ELSE PyFloat((a.n * b.d) \div (a.d * b.n), 1)

RECURSIVE EvalRest(_, _, _)
EvalRest(s, i, acc) ==
    IF i > Len(s) THEN acc
    ELSE LET op == Tok(s, i)
         IN IF op.type \notin {"div", "floordiv"} \/ op.next > Len(s) THEN EvalError
            ELSE LET rhs == Tok(s, op.next)
                 IN IF rhs.type \notin {"num", "ell"} THEN EvalError
                    ELSE EvalRest(s, rhs.next, ApplyDiv(op.type, acc, rhs.v))

\* eval(token): a number, Ellipsis, or EvalError for any exception
py_eval(s) ==
    LET t == Tok(s, 1)
    IN IF t.type \notin {"num", "ell"} THEN EvalError ELSE EvalRest(s, t.next, t.v)

----------------------------------------------------------------------------
(* Ingredient line parser *)

RECURSIVE SplitFrom(_, _, _)
\* re.split(r",|\n", s): the pieces of s[start..] cut at every ',' and newline
SplitFrom(s, i, start) ==
    IF i > Len(s) THEN <<SubSeq(s, start, Len(s))>>
    ELSE IF Char(s, i) \in {",", "\n"}
         THEN <<SubSeq(s, start, i - 1)>> \o SplitFrom(s, i + 1, i + 1)
         ELSE SplitFrom(s, i + 1, start)

RECURSIVE StripNonEmpty(_)
StripNonEmpty(pieces) ==
    IF pieces = <<>> THEN <<>>
    ELSE (IF strip(Head(pieces)) # "" THEN <<strip(Head(pieces))>> ELSE <<>>)
         \o StripNonEmpty(Tail(pieces))

RECURSIVE ScanQty(_, _)
ScanQty(s, i) == IF i <= Len(s) /\ (IsDigit(Char(s, i)) \/ Char(s, i) \in {".", "/"})
                 THEN ScanQty(s, i + 1) ELSE i

RECURSIVE ScanSpace(_, _)
ScanSpace(s, i) == IF i <= Len(s) /\ IsSpace(Char(s, i)) THEN ScanSpace(s, i + 1) ELSE i

\* re.match(r"(?P<qty>[\d\.\/]+)?\s*(?P<unit>[a-zA-Z])\s(?P<name>.+)", it): the
\* three classes are disjoint, so the greedy match is the only candidate
MatchItem(it) ==
    LET j == ScanQty(it, 1)
        k == ScanSpace(it, j)
        ok == /\ k + 2 <= Len(it)
              /\ IsLetter(Char(it, k))
              /\ IsSpace(Char(it, k + 1))
    IN [ok |-> ok,
        qty |-> SubSeq(it, 1, j - 1),
        unit |-> IF ok THEN Char(it, k) ELSE "",
        name |-> IF ok THEN SubSeq(it, k + 2, Len(it)) ELSE ""]

\* the amount of a matched item: eval of the token, 1 when absent or on exception
ItemAmount(m) ==
    IF m.qty = "" THEN PyInt(1)
    ELSE IF py_eval(m.qty).kind = "error" THEN PyInt(1)
    ELSE py_eval(m.qty)

ItemEntry(m, fpUp) ==
    [amount |-> ItemAmount(m),
     unit |-> strip(m.unit),
     name |-> strip(m.name),
     formattedAmount |-> PyStrOf(round2(ItemAmount(m), fpUp))]

RECURSIVE ParseItems(_, _)
ParseItems(items, fpUp) ==
    IF items = <<>> THEN <<>>
    ELSE (IF MatchItem(Head(items)).ok THEN <<ItemEntry(MatchItem(Head(items)), fpUp)>> ELSE <<>>)
         \o ParseItems(Tail(items), fpUp)

\* round(amt, 2) raises TypeError, outside the try, when eval returned Ellipsis
ParseRaises(items) ==
    \E i \in 1..Len(items) :
        MatchItem(items[i]).ok /\ ItemAmount(MatchItem(items[i])).kind = "ellipsis"

\* line is the string str(line)
parse_ingredient_line(line, fpUp) ==
    LET items == StripNonEmpty(SplitFrom(line, 1, 1))
    IN IF ParseRaises(items) THEN [raised |-> TRUE, exc |-> "TypeError", value |-> <<>>]
       ELSE [raised |-> FALSE, exc |-> "", value |-> ParseItems(items, fpUp)]

----------------------------------------------------------------------------
(* Scaling engine *)

LINEAR_INGREDIENTS == {"rice", "flour", "water", "milk", "oil", "ghee", "sugar",
                       "jaggery", "coconut", "curd"}
LOG_INGREDIENTS == {"salt", "spice", "turmeric", "chilli", "pepper", "masala"}
FIXED_INGREDIENTS == {"cardamom", "cloves", "cinnamon", "bay leaf", "mustard", "curry leaves"}

\* log(servings) / log(2) in millionths, for servings 1..8 (exact at 1, 2, 4, 8)
LogRatioMicro == <<0, 1000000, 1584963, 2000000, 2321928, 2584963, 2807355, 3000000>>

IsFixed(name) == \E k \in FIXED_INGREDIENTS : Contains(name, k)
IsLog(name) == \E k \in LOG_INGREDIENTS : Contains(name, k)

\* Scaled without the Fixed branch: a Fixed name falls through to the other regimes
Scaled_NoFixed(item, servings) ==
    LET name == lower(item.name)
        qty == item.amount
    IN IF IsLog(name) /\ servings >= 1
       THEN PyFloat(qty.n * LogRatioMicro[servings], qty.d * 1000000)
       ELSE PyFloat(qty.n * servings, qty.d * BASE_SERVINGS)

\* Scaled with the Logarithmic keywords tested before the Fixed ones
Scaled_LogFirst(item, servings) ==
    LET name == lower(item.name)
        qty == item.amount
    IN IF IsLog(name) /\ servings >= 1
       THEN PyFloat(qty.n * LogRatioMicro[servings], qty.d * 1000000)
       ELSE IF IsFixed(name) THEN qty
       ELSE PyFloat(qty.n * servings, qty.d * BASE_SERVINGS)

\* the unrounded scaled quantity
Scaled(item, servings) ==
    LET name == lower(item.name)
        qty == item.amount
    IN IF IsFixed(name) THEN qty
       ELSE IF IsLog(name) THEN PyFloat(qty.n * LogRatioMicro[servings], qty.d * 1000000)
       ELSE PyFloat(qty.n * servings, qty.d * BASE_SERVINGS)

\* math.log raises ValueError for servings <= 0, only on the logarithmic branch
ScaleRaises(item, servings) ==
    ~IsFixed(lower(item.name)) /\ IsLog(lower(item.name)) /\ servings <= 0

scale_ingredient(item, servings, fpUp) ==
    IF ScaleRaises(item, servings)
    THEN [raised |-> TRUE, exc |-> "ValueError", value |-> item]
    ELSE [raised |-> FALSE, exc |-> "",
          value |-> [item EXCEPT !.amount = round2(Scaled(item, servings), fpUp),
                                 !.formattedAmount = to_mixed_fraction(Scaled(item, servings), fpUp)]]

----------------------------------------------------------------------------
(* Recipe resolver.  xls is the workbook: a sequence of sheets in the order *)
(* of the file, each [name, columns, rows] with every row a sequence of     *)
(* cells aligned with columns.                                              *)

\* the multilingual name columns in declaration order, then the "name"/"Name"
\* fallback of detect_row bound to "en"
LANGUAGE_SUFFIX == <<
    <<"TamilName", "ta">>, <<"tamilname", "ta">>,
    <<"hindiName", "hn">>, <<"malayalamName", "kl">>,
    <<"kannadaName", "kn">>, <<"teluguName", "te">>,
    <<"frenchName", "french">>, <<"spanishName", "spanish">>, <<"germanName", "german">> >>

NAME_FALLBACK == << <<"name", "en">>, <<"Name", "en">> >>

HasColumn(sheet, col) == \E c \in 1..Len(sheet.columns) : sheet.columns[c] = col
ColumnIndex(sheet, col) == CHOOSE c \in 1..Len(sheet.columns) : sheet.columns[c] = col

\* df[df[col].astype(str).str.lower().str.strip() == lower]: the matching rows, in order
RECURSIVE HitRows(_, _, _, _)
HitRows(sheet, col, lowerName, r) ==
    IF r > Len(sheet.rows) THEN <<>>
    ELSE (IF strip(lower(PyStrOf(sheet.rows[r][ColumnIndex(sheet, col)]))) = lowerName
          THEN <<r>> ELSE <<>>)
         \o HitRows(sheet, col, lowerName, r + 1)

NotFound == [found |-> FALSE, sheet |-> 0, lang_col |-> "", lang_code |-> "", hit |-> <<>>]

\* one of the two column loops of a sheet, from position j of cols
RECURSIVE DetectInColumns(_, _, _, _, _)
DetectInColumns(sheetIdx, sheet, cols, lowerName, j) ==
    IF j > Len(cols) THEN NotFound
    ELSE IF HasColumn(sheet, cols[j][1]) /\ HitRows(sheet, cols[j][1], lowerName, 1) # <<>>
    THEN [found |-> TRUE, sheet |-> sheetIdx, lang_col |-> cols[j][1],
          lang_code |-> cols[j][2], hit |-> HitRows(sheet, cols[j][1], lowerName, 1)]
    ELSE DetectInColumns(sheetIdx, sheet, cols, lowerName, j + 1)

\* DetectInSheet with the "name"/"Name" fallback searched before the
\* multilingual columns
DetectInSheet_FallbackFirst(sheetIdx, sheet, lowerName) ==
    IF DetectInColumns(sheetIdx, sheet, NAME_FALLBACK, lowerName, 1).found
    THEN DetectInColumns(sheetIdx, sheet, NAME_FALLBACK, lowerName, 1)
    ELSE DetectInColumns(sheetIdx, sheet, LANGUAGE_SUFFIX, lowerName, 1)

\* the body of the sheet loop: the multilingual columns, then the fallback
DetectInSheet(sheetIdx, sheet, lowerName) ==
    IF DetectInColumns(sheetIdx, sheet, LANGUAGE_SUFFIX, lowerName, 1).found
    THEN DetectInColumns(sheetIdx, sheet, LANGUAGE_SUFFIX, lowerName, 1)
    ELSE DetectInColumns(sheetIdx, sheet, NAME_FALLBACK, lowerName, 1)

RECURSIVE DetectFrom(_, _, _)
DetectFrom(book, lowerName, i) ==
    IF i > Len(book) THEN NotFound
    ELSE IF DetectInSheet(i, book[i], lowerName).found THEN DetectInSheet(i, book[i], lowerName)
    ELSE DetectFrom(book, lowerName, i + 1)

\* detect_row comparing the query as given, not lowercased
detect_row_NoLower(book, recipe_name) == DetectFrom(book, recipe_name, 1)

detect_row(book, recipe_name) == DetectFrom(book, lower(recipe_name), 1)

----------------------------------------------------------------------------
(* Adjustment orchestrator *)

\* next((c for c in row.index if ...), None) over the columns that satisfy the
\* condition: the first of them, 0 standing for None
FirstColumn(hits) == IF hits = {} THEN 0 ELSE CHOOSE c \in hits : \A other \in hits : c <= other

IngredientColumn(columns, lang_code) ==
    LET inLang == {c \in 1..Len(columns) : Contains(lower(columns[c]), "ingredients_" \o lang_code)}
        inEn == {c \in 1..Len(columns) : Contains(lower(columns[c]), "ingredients_en")}
    IN IF FirstColumn(inLang) # 0 THEN FirstColumn(inLang) ELSE FirstColumn(inEn)

CookingColumn(columns) ==
    FirstColumn({c \in 1..Len(columns) : lower(columns[c]) \in {"cooking", "cookingtime"}})

EmptyBody == [recipe |-> "", base_servings |-> 0, new_servings |-> 0,
              original_time |-> "", adjusted_time |-> "", ingredients |-> <<>>]

ErrorResponse(status, error) ==
    [raised |-> FALSE, exc |-> "",
     value |-> [status |-> status, error |-> error, body |-> EmptyBody]]

RecipeNotFound == ErrorResponse(404, "Recipe not found")

\* the missing ingredient column reported as a missing recipe
SchemaError_AsNotFound == ErrorResponse(404, "Recipe not found")

SchemaError == ErrorResponse(500, "Ingredient column not found")

\* [scale_ingredient(i, servings) for i in base_ing]
RECURSIVE ScaleAll(_, _, _)
ScaleAll(entries, servings, fpUp) ==
    IF entries = <<>> THEN <<>>
    ELSE <<scale_ingredient(Head(entries), servings, fpUp).value>>
         \o ScaleAll(Tail(entries), servings, fpUp)

ScaleAllRaises(entries, servings) ==
    \E i \in 1..Len(entries) : ScaleRaises(entries[i], servings)

\* the handler after authentication; an exception that escapes it is reported
\* as raised (the server answers 500 Internal Server Error).  The parser's own
\* formattedAmount is overwritten by scale_ingredient, so one fpUp serves both
adjust_ingredients(book, recipe_name, servings, fpUp) ==
    LET recipe == strip(recipe_name)
        det == detect_row(book, recipe)
        sheet == book[det.sheet]
        row == sheet.rows[det.hit[1]]
        ing_col == IngredientColumn(sheet.columns, det.lang_code)
        cook_col == CookingColumn(sheet.columns)
        original_time == IF cook_col # 0 THEN row[cook_col] ELSE PyStr("N/A")
        new_time == scale_cooking_time(original_time, servings)
        base_ing == parse_ingredient_line(PyStrOf(row[ing_col]), fpUp)
    IN IF ~det.found THEN RecipeNotFound
       ELSE IF ing_col = 0 THEN SchemaError
       ELSE IF base_ing.raised THEN [raised |-> TRUE, exc |-> base_ing.exc,
                                     value |-> [status |-> 500, error |-> "", body |-> EmptyBody]]
       ELSE IF ScaleAllRaises(base_ing.value, servings)
       THEN [raised |-> TRUE, exc |-> "ValueError",
             value |-> [status |-> 500, error |-> "", body |-> EmptyBody]]
       ELSE [raised |-> FALSE, exc |-> "",
             value |-> [status |-> 200, error |-> "",
                        body |-> [recipe |-> recipe,
                                  base_servings |-> BASE_SERVINGS,
                                  new_servings |-> servings,
                                  original_time |-> format_time(original_time),
                                  adjusted_time |-> format_time(new_time),
                                  ingredients |-> ScaleAll(base_ing.value, servings, fpUp)]]]

----------------------------------------------------------------------------
(* Workbooks *)

PongalSheet(line) ==
    [name |-> "Recipes",
     columns |-> <<"name", "ingredients_en", "cooking">>,
     rows |-> << <<PyStr("Pongal"), PyStr(line), PyStr("30")>> >>]

\* a multilingual sheet: the Tamil name of the second row collides with the
\* English name of the first
TamilSheet ==
    [name |-> "Tamil",
     columns |-> <<"TamilName", "name", "Ingredients_ta", "ingredients_en", "CookingTime">>,
     rows |-> << <<PyStr("Idli"), PyStr("Pongal"), PyStr("1 k arisi"),
                   PyStr("2 g rice, 1/2 t salt"), PyInt(20)>>,
                 <<PyStr(" pongal "), PyStr("Dosa"), PyStr("3 g mustard oil"),
                   PyStr("1/3 t Cardamom\n2 g chilli oil"), PyNaN>> >>]

\* a sheet with name columns and no ingredient column
HindiSheet ==
    [name |-> "Hindi",
     columns |-> <<"hindiName", "Name", "Cooking">>,
     rows |-> << <<PyStr("Dosa"), PyStr("Pongal Rice"), PyStr("abc")>>,
                 <<PyNaN, PyStr("PONGAL"), PyInt(45)>> >>]

PlainSheet ==
    [name |-> "Plain",
     columns |-> <<"Name", "Ingredients_EN", "time">>,
     rows |-> << <<PyStr("dosa"), PyStr("... g salt"), PyInt(45)>>,
                 <<PyStr("IDLI "), PyStr("1/3 g mustard, 1 g salt"), PyInt(15)>> >>]

SheetPool == {PongalSheet("2 cup rice, 1 tsp salt"), TamilSheet, HindiSheet, PlainSheet}

RECURSIVE BooksOfLen(_)
BooksOfLen(k) ==
    IF k = 0 THEN {<<>>}
    ELSE {Append(b, sh) : b \in BooksOfLen(k - 1), sh \in SheetPool}

DistinctSheets(b) == \A i, j \in 1..Len(b) : i # j => b[i].name # b[j].name

Books == {b \in UNION {BooksOfLen(k) : k \in 1..MaxSheets} : DistinctSheets(b)}

PongalBook == <<PongalSheet("2 cup rice, 1 tsp salt")>>

----------------------------------------------------------------------------
(* Inputs *)

QtyChars == {"0", "1", "2", "3", ".", "/"}

RECURSIVE StringsOfLen(_, _)
StringsOfLen(chars, k) ==
    IF k = 0 THEN {""} ELSE {t \o c : t \in StringsOfLen(chars, k - 1), c \in chars}

QtyTokens == UNION {StringsOfLen(QtyChars, k) : k \in 0..MaxQtyLen}
                \cup {"...", "1/2", "1/3", "1/8", "1/0", "2.5", ".01", "1//2"}

UnitWords == {"g", "cup", "T"}
IngredientNames == {"rice", "salt", "Mustard oil", "chilli oil", "cinnamon spice", "x"}

\* one fragment around each token: token, optional blank, unit word, optional
\* blank, name
ShapeLines ==
    {q \o g1 \o u \o g2 \o "rice" : q \in QtyTokens, g1 \in {"", " "}, u \in UnitWords,
                                    g2 \in {"", " "}}

\* every token with every name, in the one-letter-unit shape
RecipeLines == {q \o " g " \o n : q \in QtyTokens, n \in IngredientNames}

MultiLines == {"2 cup rice, 1/2 tsp salt", "2 g rice, 1/2 t salt", "2 g rice\n1/3 t Cardamom,g x",
               ",,\n", "", "... g x, 1 g y", " 3 t a b ,b c", "1 g salt,2 g salt",
               "2 g bay leaf , rice\n\n.5 T  Salt "}

Lines == ShapeLines \cup RecipeLines \cup MultiLines

Range(f) == {f[i] : i \in DOMAIN f}

\* every entry the parser returns on Lines
ParsedEntries ==
    UNION {Range(parse_ingredient_line(l, fp).value) : l \in Lines, fp \in BOOLEAN}

ServingCounts == (-1)..MaxServings

RecipeNames == {"Pongal", "  Pongal ", "pongal", "PONGAL\n", "Idli", " dosa", "Pong",
                "Pongal Rice", "nan", ""}

TimeCells == {PyInt(m) : m \in 0..MaxMinutes}
                \cup {PyStr(t) : t \in {"30", " 15 ", "12.5", "abc", "nan", "", "N/A", "-5", "0.5", "7"}}
                \cup {PyNaN}

MixedValues == {PyFloat(num, den) : num \in (-4)..24, den \in {1, 2, 3, 16}}

Calls ==
    [fn : {"format_time"}, minutes : TimeCells]
    \cup [fn : {"to_mixed_fraction"}, val : MixedValues, fpUp : BOOLEAN]
    \cup [fn : {"scale_cooking_time"}, t : TimeCells, servings : ServingCounts]
    \cup [fn : {"parse_ingredient_line"}, line : Lines, fpUp : BOOLEAN]
    \cup [fn : {"scale_ingredient"}, item : ParsedEntries, servings : ServingCounts, fpUp : BOOLEAN]

BookCalls ==
    [fn : {"detect_row"}, recipe_name : RecipeNames]
    \cup [fn : {"adjust_ingredients"}, recipe_name : RecipeNames, servings : ServingCounts,
          fpUp : BOOLEAN]

RecipeCalls ==
    [fn : {"adjust_ingredients"}, recipe_name : {"Pongal"}, servings : ServingCounts,
     fpUp : BOOLEAN]

----------------------------------------------------------------------------
(* Specification: the workbook is loaded, one call is made, it returns *)

Pending == [state |-> "pending"]
Returned(r) == [state |-> IF r.raised THEN "raised" ELSE "returned", exc |-> r.exc, value |-> r.value]
Value(v) == [raised |-> FALSE, exc |-> "", value |-> v]

Init ==
    /\ ret = Pending
    /\ \/ xls = PongalBook /\ call \in Calls
       \/ xls \in Books /\ call \in BookCalls
       \/ \E l \in RecipeLines \cup MultiLines : xls = <<PongalSheet(l)>> /\ call \in RecipeCalls

FormatTime ==
    /\ ret.state = "pending" /\ call.fn = "format_time"
    /\ ret' = Returned(Value(format_time(call.minutes)))
    /\ UNCHANGED <<xls, call>>

ToMixedFraction ==
    /\ ret.state = "pending" /\ call.fn = "to_mixed_fraction"
    /\ ret' = Returned(Value(to_mixed_fraction(call.val, call.fpUp)))
    /\ UNCHANGED <<xls, call>>

ScaleCookingTime ==
    /\ ret.state = "pending" /\ call.fn = "scale_cooking_time"
    /\ ret' = Returned(Value(scale_cooking_time(call.t, call.servings)))
    /\ UNCHANGED <<xls, call>>

ParseIngredientLine ==
    /\ ret.state = "pending" /\ call.fn = "parse_ingredient_line"
    /\ ret' = Returned(parse_ingredient_line(call.line, call.fpUp))
    /\ UNCHANGED <<xls, call>>

ScaleIngredient ==
    /\ ret.state = "pending" /\ call.fn = "scale_ingredient"
    /\ ret' = Returned(scale_ingredient(call.item, call.servings, call.fpUp))
    /\ UNCHANGED <<xls, call>>

DetectRow ==
    /\ ret.state = "pending" /\ call.fn = "detect_row"
    /\ ret' = Returned(Value(detect_row(xls, call.recipe_name)))
    /\ UNCHANGED <<xls, call>>

AdjustIngredients ==
    /\ ret.state = "pending" /\ call.fn = "adjust_ingredients"
    /\ ret' = Returned(adjust_ingredients(xls, call.recipe_name, call.servings, call.fpUp))
    /\ UNCHANGED <<xls, call>>

Next ==
    \/ FormatTime
    \/ ToMixedFraction
    \/ ScaleCookingTime
    \/ ParseIngredientLine
    \/ ScaleIngredient
    \/ DetectRow
    \/ AdjustIngredients

Spec == Init /\ [][Next]_vars

----------------------------------------------------------------------------
(* Properties *)

Done(fn) == call.fn = fn /\ ret.state # "pending"
ReturnedFrom(fn) == call.fn = fn /\ ret.state = "returned"

\* number-or-fraction tokens with the value each denotes
NumberTokens == { <<"2", 2, 1>>, <<"1", 1, 1>>, <<"3", 3, 1>>, <<"1/2", 1, 2>>, <<"1/3", 1, 3>> }

IsEntry(e, num, den, unit, name) ==
    /\ IsNumber(e.amount) /\ e.amount.n * den = num * e.amount.d
    /\ e.unit = unit
    /\ e.name = name

\* C1: parse_ingredient_line keeps every fragment "<number or a/b> <unit word>
\* <name>": one entry per fragment, in input order, the unit word as unit and
\* the rest as name; "2 cup rice, 1/2 tsp salt" yields {2, cup, rice} then
\* {0.5, tsp, salt}
C1_ParseKeepsShapedFragments ==
    Done("parse_ingredient_line") =>
        /\ \A t \in NumberTokens, u \in UnitWords, n \in IngredientNames :
              call.line = t[1] \o " " \o u \o " " \o n =>
                  /\ ret.state = "returned"
                  /\ Len(ret.value) = 1
                  /\ IsEntry(ret.value[1], t[2], t[3], u, n)
        /\ call.line = "2 cup rice, 1/2 tsp salt" =>
              /\ ret.state = "returned"
              /\ Len(ret.value) = 2
              /\ IsEntry(ret.value[1], 2, 1, "cup", "rice")
              /\ IsEntry(ret.value[2], 1, 2, "tsp", "salt")

\* C2: on the one-sheet workbook {name Pongal, ingredients_en "2 cup rice,
\* 1 tsp salt", cooking "30"}, adjust_ingredients("Pongal", 4) returns rice
\* with amount 4.0 formatted "4", salt with amount 2.0 formatted "2", and
\* adjusted_time "1 hr"
C2_PongalScenario ==
    (Done("adjust_ingredients") /\ xls = PongalBook
        /\ call.recipe_name = "Pongal" /\ call.servings = 4) =>
        /\ ret.state = "returned"
        /\ ret.value.status = 200
        /\ \E i \in 1..Len(ret.value.body.ingredients) :
              LET e == ret.value.body.ingredients[i]
              IN e.name = "rice" /\ NumEq(e.amount, PyInt(4)) /\ e.formattedAmount = "4"
        /\ \E i \in 1..Len(ret.value.body.ingredients) :
              LET e == ret.value.body.ingredients[i]
              IN e.name = "salt" /\ NumEq(e.amount, PyInt(2)) /\ e.formattedAmount = "2"
        /\ ret.value.body.adjusted_time = "1 hr"

\* the text the time format is specified to give for h hours and r minutes
HoursPart(h) == IF h > 0 THEN IntToStr(h) \o (IF h > 1 THEN " hrs" ELSE " hr") ELSE ""
MinutesPart(r) == IF r > 0 THEN IntToStr(r) \o (IF r > 1 THEN " mins" ELSE " min") ELSE ""
TimeText(m) ==
    HoursPart(m \div 60)
    \o (IF m \div 60 > 0 /\ m % 60 > 0 THEN " " ELSE "")
    \o MinutesPart(m % 60)

\* C5: for every whole minute count m >= 0, format_time(m) is the hours part
\* and the minutes part, separated by one space only when both are present,
\* with no leading or trailing whitespace
C5_FormatTimeExact ==
    (Done("format_time") /\ call.minutes.kind = "int" /\ call.minutes.n >= 0) =>
        /\ ret.state = "returned"
        /\ ret.value = TimeText(call.minutes.n)

\* the ingredient entries a finished call produced
EntriesOf ==
    IF ReturnedFrom("parse_ingredient_line") THEN Range(ret.value)
    ELSE IF ReturnedFrom("scale_ingredient") THEN {ret.value}
    ELSE IF ReturnedFrom("adjust_ingredients") THEN Range(ret.value.body.ingredients)
    ELSE {}

\* C7: every entry produced by parse_ingredient_line, or by scale_ingredient
\* alone or inside an adjustment result, has a non-negative amount and a
\* non-empty name, for every serving count the orchestrator accepts
C7_EntriesNonNegativeNamed ==
    \A e \in EntriesOf : IsNumber(e.amount) /\ e.amount.n >= 0 /\ e.name # ""

\* C8: parse_ingredient_line, scale_cooking_time and format_time return a
\* value and never raise, and for servings >= 1 adjust_ingredients on a
\* resolved row with an ingredient column returns an adjustment result
C8_FailuresContained ==
    /\ \A fn \in {"parse_ingredient_line", "scale_cooking_time", "format_time"} :
          Done(fn) => ret.state = "returned"
    /\ (Done("adjust_ingredients") /\ call.servings >= 1) =>
          /\ ret.state = "returned"
          /\ ret.value.status \in {200, 404, 500}
          /\ ret.value.status = 500 => ret.value.error = "Ingredient column not found"

----------------------------------------------------------------------------
(* Scaling properties *)

HasKeyword(name, keywords) == \E k \in keywords : Contains(lower(name), k)

\* floor(100 * num / den), by long division (den > 0)
FloorHundredths(num, den) ==
    LET r0 == num % den
        r1 == (r0 * 10) % den
    IN (num \div den) * 100 + ((r0 * 10) \div den) * 10 + ((r1 * 10) \div den)

\* the remainder of that division: num/den - floor = remainder / (100 * den)
HundredthsRemainder(num, den) == ((((num % den) * 10) % den) * 10) % den

\* a is num/den rounded to the nearest hundredth: the same int, or a float on
\* the hundredth below when the remainder is at most half, above when it is at
\* least half
IsRounded(a, num, den) ==
    /\ IsNumber(a)
    /\ (a.n * 100) % a.d = 0
    /\ \/ /\ (a.n * 100) \div a.d = FloorHundredths(num, den)
          /\ 2 * HundredthsRemainder(num, den) <= den
       \/ /\ (a.n * 100) \div a.d = FloorHundredths(num, den) + 1
          /\ 2 * HundredthsRemainder(num, den) >= den

\* C3 as stated: for servings >= 1 and a name containing a Fixed keyword,
\* scale_ingredient returns the original amount unchanged, for every amount
\* the parser can produce
C3_FixedAmountUnchanged ==
    (Done("scale_ingredient") /\ call.servings >= 1
        /\ HasKeyword(call.item.name, FIXED_INGREDIENTS)) =>
        /\ ret.state = "returned"
        /\ NumEq(ret.value.amount, call.item.amount)

\* C3 amended: for servings >= 1 and a name containing a Fixed keyword,
\* scale_ingredient returns the original amount rounded to 2 decimal places,
\* whatever the serving count: within 0.005 of the original, and equal to it
\* when the original is a whole number of hundredths
C3_FixedAmountRounded ==
    (Done("scale_ingredient") /\ call.servings >= 1
        /\ HasKeyword(call.item.name, FIXED_INGREDIENTS)) =>
        /\ ret.state = "returned"
        /\ LET a == ret.value.amount
               o == call.item.amount
           IN /\ IsNumber(a)
              /\ a.kind = o.kind
              /\ a.kind = "float" => (a.n * 100) % a.d = 0
              /\ 200 * Abs(a.n * o.d - o.n * a.d) <= a.d * o.d
              /\ (o.n * 100) % o.d = 0 => NumEq(a, o)

C3_Witness ==
    /\ ReturnedFrom("scale_ingredient")
    /\ call.servings = 3
    /\ call.item.name = "Mustard oil"
    /\ call.item.amount = PyFloat(1, 3)
    /\ ret.value.amount = PyFloat(33, 100)

\* C9: the regime is picked by case-insensitive substring match with
\* precedence Fixed > Logarithmic > Linear: a Fixed name keeps its amount even
\* if it also holds a Logarithmic or Linear keyword, a Logarithmic name with no
\* Fixed keyword is scaled by log(servings)/log(2) even if it also holds a
\* Linear keyword, and every other name is scaled by servings/2 (amounts
\* rounded to 2 decimals)
C9_RegimePrecedence ==
    ReturnedFrom("scale_ingredient") =>
        LET a == ret.value.amount
            o == call.item.amount
            name == call.item.name
        IN IF HasKeyword(name, FIXED_INGREDIENTS)
           THEN IF o.kind = "int" THEN a = o ELSE IsRounded(a, o.n, o.d)
           ELSE IF HasKeyword(name, LOG_INGREDIENTS)
           THEN /\ call.servings >= 1
                /\ IsRounded(a, o.n * LogRatioMicro[call.servings], o.d * 1000000)
           ELSE IsRounded(a, o.n * call.servings, o.d * 2)

C9_Witness ==
    /\ ReturnedFrom("scale_ingredient")
    /\ call.servings = 3
    /\ call.item.name = "chilli oil"
    /\ call.item.amount = PyInt(2)
    /\ ret.value.amount = PyFloat(317, 100)

----------------------------------------------------------------------------
(* Resolver properties *)

NameColumns == LANGUAGE_SUFFIX \o NAME_FALLBACK

CellText(book, i, col, r) == PyStrOf(book[i].rows[r][ColumnIndex(book[i], col)])

\* the cell of row r of sheet i under the j-th name column equals text,
\* compared whole, ignoring case and surrounding whitespace of the cell
CellIs(book, i, j, r, text) ==
    /\ HasColumn(book[i], NameColumns[j][1])
    /\ lower(strip(CellText(book, i, NameColumns[j][1], r))) = text

\* the positions <<sheet, name column>> where some row holds text
Matches(book, text) ==
    {p \in (1..Len(book)) \X (1..Len(NameColumns)) :
        \E r \in 1..Len(book[p[1]].rows) : CellIs(book, p[1], p[2], r, text)}

Before(p, q) == p[1] < q[1] \/ (p[1] = q[1] /\ p[2] <= q[2])

FirstMatch(book, text) ==
    CHOOSE p \in Matches(book, text) : \A q \in Matches(book, text) : Before(p, q)

HasIngredientColumn(sheet, code) ==
    \E c \in 1..Len(sheet.columns) :
        \/ Contains(lower(sheet.columns[c]), "ingredients_" \o code)
        \/ Contains(lower(sheet.columns[c]), "ingredients_en")

\* C4: adjust_ingredients answers not-found (404) exactly when no sheet has a
\* row whose multilingual or name column equals the requested name, and the
\* schema error (500), never not-found, when a row matched but its columns
\* hold neither "ingredients_<languageCode>" nor "ingredients_en"
C4_OutcomeByCause ==
    Done("adjust_ingredients") =>
        LET text == lower(strip(call.recipe_name))
            none == Matches(xls, text) = {}
            first == FirstMatch(xls, text)
        IN /\ (ret.state = "returned" /\ ret.value.status = 404) <=> none
           /\ (~none /\ ~HasIngredientColumn(xls[first[1]], NameColumns[first[2]][2])) =>
                 /\ ret.state = "returned"
                 /\ ret.value.status = 500
                 /\ ret.value.error = "Ingredient column not found"

C4_Witness ==
    /\ ReturnedFrom("adjust_ingredients")
    /\ Matches(xls, lower(strip(call.recipe_name))) # {}
    /\ ret.value.status = 500
    /\ ret.value.error = "Ingredient column not found"

\* C6 as stated: detect_row lowercases and trims its query: for every stored
\* name s and every query q equal to s up to case and surrounding whitespace,
\* detect_row(q) returns the row holding s
C6_DetectRowNormalizes ==
    Done("detect_row") =>
        (Matches(xls, lower(strip(call.recipe_name))) # {} =>
            /\ ret.value.found
            /\ lower(strip(CellText(xls, ret.value.sheet, ret.value.lang_col, ret.value.hit[1])))
                  = lower(strip(call.recipe_name)))

\* C6 amended: the query is trimmed by adjust_ingredients and lowercased by
\* detect_row: for every stored name s and every query q equal to s up to case
\* and surrounding whitespace, adjust_ingredients(q) resolves a row (it never
\* answers not-found), and detect_row on a query without surrounding
\* whitespace returns a row whose name cell equals the query up to case and
\* the cell's surrounding whitespace
C6_QueryNormalizedBeforeCompare ==
    /\ Done("adjust_ingredients") =>
          (Matches(xls, lower(strip(call.recipe_name))) # {} =>
              ~(ret.state = "returned" /\ ret.value.status = 404))
    /\ (Done("detect_row") /\ strip(call.recipe_name) = call.recipe_name) =>
          (Matches(xls, lower(call.recipe_name)) # {} =>
              /\ ret.value.found
              /\ lower(strip(CellText(xls, ret.value.sheet, ret.value.lang_col,
                                      ret.value.hit[1])))
                    = lower(call.recipe_name))

C6_Witness ==
    /\ ReturnedFrom("adjust_ingredients")
    /\ call.recipe_name = "  Pongal "
    /\ ret.value.status = 200
    /\ ret.value.body.recipe = "Pongal"

====
